---- MODULE Spec2Model ----
(***************************************************************************)
(* Model of pykokkos/interface/type_inference.py: the argument unpacker     *)
(* handle_args and the type-annotation inferencer get_annotations.          *)
(* Both are pure functions; each has a specification whose Init draws the   *)
(* call's inputs and whose single action performs the call.                 *)
(***************************************************************************)
EXTENDS Integers, Sequences, FiniteSets, TLC

VARIABLES is_for, unpacked, hOutcome, handled,
          parallel_type, handled_args, args_list, passed_kwargs,
          gOutcome, gResult

hvars == <<is_for, unpacked, hOutcome, handled>>
gvars == <<parallel_type, handled_args, args_list, passed_kwargs, gOutcome, gResult>>
vars == <<is_for, unpacked, hOutcome, handled,
          parallel_type, handled_args, args_list, passed_kwargs, gOutcome, gResult>>

(* ------------------------------ bounds --------------------------------- *)
MaxArity == 5
MaxDims == 2
MaxParams == 3
MaxArgs == 3

(* ------------------------- Python values ------------------------------- *)
\* A value is a record whose cls field is type(value).__name__.
Obj(c, n) == [cls |-> c, v |-> n]
None == Obj("NoneType", 0)
Policy(c, s, b, e) == [cls |-> c, space |-> s, begin |-> b, end |-> e]
ViewObj(c, sh, dt) == [cls |-> c, shape |-> sh, dtype |-> dt]

\* km.get_default_space()
get_default_space == "DefaultSpace"

\* isinstance(x, str)
IsStr(x) == x.cls = "str"
\* isinstance(x, int): bool is a subclass of int
IsInt(x) == x.cls \in {"int", "bool"}
\* isinstance(x, (int, float))
IsNumeric(x) == x.cls \in {"int", "bool", "float"}
\* isinstance(x, ViewType): ViewType is the base of View and Subview
IsViewType(x) == x.cls \in {"View", "Subview"}
\* isinstance(x, View)
IsView(x) == x.cls = "View"

(* ----------------------------- handle_args ----------------------------- *)
HandledArgs(n, p, w, vw, iv) ==
  [name |-> n, policy |-> p, workunit |-> w, view |-> vw, initial_value |-> iv]

\* defaults of lines 44-48
DefaultInitialValue == Obj("int", 0)

NoRecord == [cls |-> "no record"]
Returned(r) == [outcome |-> "returned", rec |-> r]
Raised(e) == [outcome |-> e, rec |-> NoRecord]

\* lines 89-90
WrapPolicy(p) ==
  IF IsInt(p) THEN Policy("RangePolicy", get_default_space, 0, p.v) ELSE p

\* lines 51-53
Arity2(u) ==
  Returned(HandledArgs(None, WrapPolicy(u[1]), u[2], None, DefaultInitialValue))

\* lines 55-69
Arity3_ViewFirst(f, u) ==
  IF f /\ IsViewType(u[3])
    THEN Returned(HandledArgs(None, WrapPolicy(u[1]), u[2], u[3], DefaultInitialValue))
  ELSE IF IsStr(u[1])
    THEN Returned(HandledArgs(u[1], WrapPolicy(u[2]), u[3], None, DefaultInitialValue))
  ELSE IF IsNumeric(u[3])
    THEN Returned(HandledArgs(None, WrapPolicy(u[1]), u[2], None, u[3]))
  ELSE Raised("TypeError")
Arity3_NoElse(f, u) ==
  IF IsStr(u[1])
    THEN Returned(HandledArgs(u[1], WrapPolicy(u[2]), u[3], None, DefaultInitialValue))
  ELSE IF f /\ IsViewType(u[3])
    THEN Returned(HandledArgs(None, WrapPolicy(u[1]), u[2], u[3], DefaultInitialValue))
  ELSE Returned(HandledArgs(None, WrapPolicy(u[1]), u[2], None, u[3]))
Arity3(f, u) ==
  IF IsStr(u[1])
    THEN Returned(HandledArgs(u[1], WrapPolicy(u[2]), u[3], None, DefaultInitialValue))
  ELSE IF f /\ IsViewType(u[3])
    THEN Returned(HandledArgs(None, WrapPolicy(u[1]), u[2], u[3], DefaultInitialValue))
  ELSE IF IsNumeric(u[3])
    THEN Returned(HandledArgs(None, WrapPolicy(u[1]), u[2], None, u[3]))
  ELSE Raised("TypeError")

\* lines 71-84
Arity4_AnyName(f, u) ==
  IF f /\ IsViewType(u[4])
    THEN Returned(HandledArgs(u[1], WrapPolicy(u[2]), u[3], u[4], DefaultInitialValue))
  ELSE IF IsNumeric(u[4])
    THEN Returned(HandledArgs(u[1], WrapPolicy(u[2]), u[3], None, u[4]))
  ELSE Raised("TypeError")
Arity4(f, u) ==
  IF IsStr(u[1])
    THEN IF f /\ IsViewType(u[4])
           THEN Returned(HandledArgs(u[1], WrapPolicy(u[2]), u[3], u[4], DefaultInitialValue))
         ELSE IF IsNumeric(u[4])
           THEN Returned(HandledArgs(u[1], WrapPolicy(u[2]), u[3], None, u[4]))
         ELSE Raised("TypeError")
  ELSE Raised("TypeError")

\* lines 33-92
handle_args(f, u) ==
  IF Len(u) = 2 THEN Arity2(u)
  ELSE IF Len(u) = 3 THEN Arity3(f, u)
  ELSE IF Len(u) = 4 THEN Arity4(f, u)
  ELSE Raised("ValueError")

(* values an element of the argument tuple is drawn from *)
HValues ==
  { Obj("str", 1), Obj("int", 3), Obj("bool", 1), Obj("float", 2),
    Obj("function", 1),
    ViewObj("View", <<4, 4>>, "float64"), ViewObj("Subview", <<4>>, "float64"),
    Policy("TeamPolicy", "OpenMP", 0, 0) }

SeqsUpTo(S, n) == UNION { [1..k -> S] : k \in 0..n }

(* state before any call *)
Init ==
  /\ is_for = FALSE
  /\ unpacked = <<>>
  /\ hOutcome = "idle"
  /\ handled = NoRecord
  /\ parallel_type = "idle"
  /\ handled_args = NoRecord
  /\ args_list = <<>>
  /\ passed_kwargs = <<>>
  /\ gOutcome = "idle"
  /\ gResult = NoRecord

\* one call handle_args(f, u): lines 33-92
CallHandleArgs ==
  /\ hOutcome = "idle"
  /\ \E f \in BOOLEAN, u \in SeqsUpTo(HValues, MaxArity) :
       /\ is_for' = f
       /\ unpacked' = u
       /\ LET r == handle_args(f, u) IN
            /\ hOutcome' = r.outcome
            /\ handled' = r.rec
  /\ UNCHANGED gvars

NextHandle == CallHandleArgs

SpecHandle == Init /\ [][NextHandle]_vars

(* --------------------------- get_annotations --------------------------- *)
\* inspect._empty
Empty == "_empty"
\* inspect.Parameter: name and annotation
Param(n, a) == [name |-> n, annotation |-> a]
\* a callable, with inspect.signature(f).parameters.values()
Function(ps) == [cls |-> "function", parameters |-> ps]

UpdatedTypes(w, it, ia) == [workunit |-> w, inferred_types |-> it, is_arg |-> ia]

\* d[k] = t on a dict
DictSet(d, k, t) == [x \in (DOMAIN d) \cup {k} |-> IF x = k THEN t ELSE d[x]]

\* updated_types.inferred_types[param.name] = t; updated_types.is_arg.add(param.name)
Infer_NoIsArg(ut, n, t) ==
  UpdatedTypes(ut.workunit, DictSet(ut.inferred_types, n, t), ut.is_arg)
Infer(ut, n, t) ==
  UpdatedTypes(ut.workunit, DictSet(ut.inferred_types, n, t), ut.is_arg \cup {n})

\* lines 113-118
policy_params(pt, ha) ==
  (IF ha.policy.cls = "MDRangePolicy" THEN Len(ha.policy.begin) ELSE 1)
    + (IF pt = "parallel_reduce" THEN 1 ELSE 0)

\* the isinstance chain of lines 128-145 has a branch for the policy
SupportedPolicy(p) ==
  p.cls \in {"RangePolicy", "TeamThreadRange", "TeamPolicy", "MDRangePolicy"}

\* lines 128-143, for a supported policy
PolicyDerived_TeamInt(ut, p, param, i) ==
  IF p.cls \in {"RangePolicy", "TeamThreadRange", "TeamPolicy"}
    THEN IF i = 0 THEN Infer(ut, param.name, "int") ELSE ut
  ELSE IF i < Len(p.begin) THEN Infer(ut, param.name, "int") ELSE ut
PolicyDerived(ut, p, param, i) ==
  IF p.cls \in {"RangePolicy", "TeamThreadRange"}
    THEN IF i = 0 THEN Infer(ut, param.name, "int") ELSE ut
  ELSE IF p.cls = "TeamPolicy"
    THEN IF i = 0 THEN Infer(ut, param.name, "pk.TeamMember") ELSE ut
  ELSE IF i < Len(p.begin) THEN Infer(ut, param.name, "int") ELSE ut

\* lines 148-150
Accumulator_Skip(ut, pt, pp, param, i) == ut
Accumulator(ut, pt, pp, param, i) ==
  IF i = pp - 1 /\ pt = "parallel_reduce"
    THEN Infer(ut, param.name, "Acc:float")
    ELSE ut

Ok(ut) == [outcome |-> "ok", ut |-> ut]
Fail(e) == [outcome |-> e, ut |-> NoRecord]

\* lines 120-150: the loop over the policy slots, from index i (0-based)
RECURSIVE PolicyLoop(_, _, _, _, _)
PolicyLoop(pt, ha, pp, i, ut) ==
  LET param_list == ha.workunit.parameters IN
  IF i >= pp THEN Ok(ut)
  ELSE IF i >= Len(param_list) THEN Fail("IndexError")
  ELSE LET param == param_list[i + 1] IN
    IF param.annotation = Empty
      THEN IF SupportedPolicy(ha.policy)
             THEN PolicyLoop(pt, ha, pp, i + 1,
                    Accumulator(PolicyDerived(ut, ha.policy, param, i), pt, pp, param, i))
             ELSE Fail("ValueError")
      ELSE PolicyLoop(pt, ha, pp, i + 1, ut)

\* lines 154-155 and 190-193
ReturnValue_Always(ut) == ut
ReturnValue(ut) ==
  IF DOMAIN ut.inferred_types = {} THEN None ELSE ut

\* lines 158-162: keyword values queued behind the positional arguments
RECURSIVE KwValues(_, _, _)
KwValues(param_list, k, kwargs) ==
  IF k > Len(param_list) THEN <<>>
  ELSE (IF param_list[k].name \in DOMAIN kwargs
          THEN <<kwargs[param_list[k].name]>> ELSE <<>>)
       \o KwValues(param_list, k + 1, kwargs)

FoldKwargs_Front(args, param_list, pp, kwargs) ==
  KwValues(param_list, pp + 1, kwargs) \o args
FoldKwargs(args, param_list, pp, kwargs) ==
  IF DOMAIN kwargs # {}
    THEN args \o KwValues(param_list, pp + 1, kwargs)
    ELSE args

\* line 166
value_idx(ha) == IF ha.name # None THEN 3 ELSE 2

\* the condition asserted at line 168
CountsMatch_AtLeast(param_list, pp, args, vi) ==
  Len(param_list) - pp <= Len(args) - vi
CountsMatch(param_list, pp, args, vi) ==
  Len(param_list) - pp = Len(args) - vi

\* lines 182-185
Descriptor(value) ==
  IF IsView(value)
    THEN "View" \o ToString(Len(value.shape)) \o "D:" \o value.dtype
    ELSE value.cls

\* lines 174-188: the loop over the trailing parameters, from index i (0-based)
RECURSIVE TrailingLoop(_, _, _, _, _, _)
TrailingLoop(param_list, pp, args, vi, i, ut) ==
  IF i >= Len(param_list) THEN ut
  ELSE LET param == param_list[i + 1] IN
    IF param.annotation = Empty
      THEN TrailingLoop(param_list, pp, args, vi, i + 1,
             Infer(ut, param.name, Descriptor(args[vi + i - pp + 1])))
      ELSE TrailingLoop(param_list, pp, args, vi, i + 1, ut)

GReturned(x) == [outcome |-> "returned", value |-> x]
GRaised(e) == [outcome |-> e, value |-> NoRecord]

\* lines 96-193
get_annotations(pt, ha, args, kwargs) ==
  LET param_list == ha.workunit.parameters
      pp == policy_params(pt, ha)
      slots == PolicyLoop(pt, ha, pp, 0, UpdatedTypes(ha.workunit, <<>>, {}))
  IN
  IF slots.outcome # "ok" THEN GRaised(slots.outcome)
  ELSE IF Len(param_list) = pp THEN GReturned(ReturnValue(slots.ut))
  ELSE LET folded == FoldKwargs(args, param_list, pp, kwargs)
           vi == value_idx(ha)
       IN
       IF ~CountsMatch(param_list, pp, folded, vi) THEN GRaised("AssertionError")
       ELSE GReturned(ReturnValue(TrailingLoop(param_list, pp, folded, vi, pp, slots.ut)))

(* inputs of get_annotations *)
ParallelTypes == {"parallel_for", "parallel_reduce", "parallel_scan"}

ParamNames == <<"a", "b", "c", "d", "e", "f", "g", "h">>

ParamLists ==
  UNION { { [k \in 1..n |-> Param(ParamNames[k], an[k])] : an \in [1..n -> {Empty, "float"}] }
          : n \in 0..MaxParams }

GPolicies ==
  { Policy("RangePolicy", "OpenMP", 0, 3),
    Policy("TeamThreadRange", "OpenMP", 0, 3),
    Policy("TeamPolicy", "OpenMP", 0, 3),
    Policy("ThreadVectorRange", "OpenMP", 0, 3) }
  \cup { Policy("MDRangePolicy", "OpenMP", [k \in 1..n |-> 0], [k \in 1..n |-> 3])
         : n \in 1..MaxDims }

GHandledArgs ==
  { HandledArgs(n, p, Function(ps), None, DefaultInitialValue)
    : n \in {None, Obj("str", 1)}, p \in GPolicies, ps \in ParamLists }

ArgValues == { ViewObj("View", <<4, 4>>, "float64"), Obj("int", 3) }

\* keyword names: the first parameter is a policy slot in every dispatch
KwNames == { ParamNames[k] : k \in 2..MaxParams }

Kwargs == UNION { [S -> ArgValues] : S \in SUBSET KwNames }

\* one call get_annotations(pt, ha, args, passed_kwargs=kw): lines 96-193
CallGetAnnotations ==
  /\ gOutcome = "idle"
  /\ \E pt \in ParallelTypes, ha \in GHandledArgs,
        args \in SeqsUpTo(ArgValues, MaxArgs), kw \in Kwargs :
       /\ parallel_type' = pt
       /\ handled_args' = ha
       /\ args_list' = args
       /\ passed_kwargs' = kw
       /\ LET r == get_annotations(pt, ha, args, kw) IN
            /\ gOutcome' = r.outcome
            /\ gResult' = r.value
  /\ UNCHANGED hvars

NextAnnotate == CallGetAnnotations

SpecAnnotate == Init /\ [][NextAnnotate]_vars

(* ======================= properties of handle_args ===================== *)
ConcretePolicies == {"RangePolicy", "TeamThreadRange", "TeamPolicy", "MDRangePolicy"}

\* the policy the record is said to carry for a policy element p
ResolvedPolicy(p) ==
  IF IsInt(p) THEN Policy("RangePolicy", get_default_space, 0, p.v) ELSE p

\* element 3 or 4 is usable as the output view, or as the initial value
AsView(x) == is_for /\ IsViewType(x)
AsInitial(x) == ~AsView(x) /\ IsNumeric(x)

\* C1: every accepted tuple yields the record fixed by its arity and the
\* precedence string / view (for-mode) / numeric; unassigned fields keep their
\* defaults (name None, view None, initial_value 0); an integer policy N
\* becomes RangePolicy(default space, 0, N).
C1_RecordByArityAndPrecedence ==
  hOutcome = "returned" =>
    LET u == unpacked IN
    /\ Len(u) \in {2, 3, 4}
    /\ Len(u) = 2 =>
         handled = HandledArgs(None, ResolvedPolicy(u[1]), u[2], None, Obj("int", 0))
    /\ Len(u) = 3 /\ IsStr(u[1]) =>
         handled = HandledArgs(u[1], ResolvedPolicy(u[2]), u[3], None, Obj("int", 0))
    /\ Len(u) = 3 /\ ~IsStr(u[1]) /\ AsView(u[3]) =>
         handled = HandledArgs(None, ResolvedPolicy(u[1]), u[2], u[3], Obj("int", 0))
    /\ Len(u) = 3 /\ ~IsStr(u[1]) /\ AsInitial(u[3]) =>
         handled = HandledArgs(None, ResolvedPolicy(u[1]), u[2], None, u[3])
    /\ Len(u) = 3 => IsStr(u[1]) \/ AsView(u[3]) \/ AsInitial(u[3])
    /\ Len(u) = 4 /\ AsView(u[4]) =>
         handled = HandledArgs(u[1], ResolvedPolicy(u[2]), u[3], u[4], Obj("int", 0))
    /\ Len(u) = 4 /\ AsInitial(u[4]) =>
         handled = HandledArgs(u[1], ResolvedPolicy(u[2]), u[3], None, u[4])
    /\ Len(u) = 4 => IsStr(u[1]) /\ (AsView(u[4]) \/ AsInitial(u[4]))

\* a named for-mode call whose third element is a view: the string rule wins
C1_Witness ==
  /\ hOutcome = "returned"
  /\ Len(unpacked) = 3
  /\ IsStr(unpacked[1]) /\ IsInt(unpacked[2]) /\ IsViewType(unpacked[3])
  /\ is_for
  /\ handled.policy.cls = "RangePolicy"

\* C2: ValueError exactly when the length is not 2, 3 or 4; TypeError when the
\* length is 4 and element 0 is not a string or element 3 is neither a view in
\* for-mode nor numeric; a failed call returns no record.
C2_ErrorsOutsideShapes ==
  hOutcome # "idle" =>
    LET u == unpacked IN
    /\ hOutcome = "ValueError" <=> Len(u) \notin {2, 3, 4}
    /\ (Len(u) = 4 /\ (~IsStr(u[1]) \/ ~(AsView(u[4]) \/ IsNumeric(u[4]))))
         => hOutcome = "TypeError"
    /\ hOutcome \in {"ValueError", "TypeError"} => handled = NoRecord

\* a 4-tuple with a numeric fourth element and a non-string first element
C2_Witness ==
  /\ hOutcome = "TypeError"
  /\ Len(unpacked) = 4
  /\ ~IsStr(unpacked[1])
  /\ IsNumeric(unpacked[4])

\* C3 as stated: every 3-tuple whose third element is neither a string, a view
\* nor numeric raises TypeError and returns no record.
C3_Original ==
  (/\ hOutcome # "idle"
   /\ Len(unpacked) = 3
   /\ ~IsStr(unpacked[3]) /\ ~IsViewType(unpacked[3]) /\ ~IsNumeric(unpacked[3]))
    => (hOutcome = "TypeError" /\ handled = NoRecord)

\* C3 amended: every 3-tuple whose first element is not a string and whose
\* third element is neither a string, a view nor numeric raises TypeError and
\* returns no record, in for-mode and in non-for-mode.
C3_TypeErrorUnnamed ==
  (/\ hOutcome # "idle"
   /\ Len(unpacked) = 3
   /\ ~IsStr(unpacked[1])
   /\ ~IsStr(unpacked[3]) /\ ~IsViewType(unpacked[3]) /\ ~IsNumeric(unpacked[3]))
    => (hOutcome = "TypeError" /\ handled = NoRecord)

\* an unnamed 3-tuple whose third element is a callable
C3_Witness ==
  /\ hOutcome = "TypeError"
  /\ Len(unpacked) = 3
  /\ ~IsStr(unpacked[1])
  /\ unpacked[3].cls = "function"

\* C4: the policy of every returned record is one of the concrete policy
\* variants RangePolicy, TeamThreadRange, TeamPolicy, MDRangePolicy.
C4_PolicyConcrete ==
  hOutcome = "returned" => handled.policy.cls \in ConcretePolicies

(* ===================== properties of get_annotations =================== *)
Params == handled_args.workunit.parameters

\* policyParams: 1, or the MDRangePolicy dimensionality, plus 1 for the accumulator
SlotCount ==
  (IF handled_args.policy.cls = "MDRangePolicy" THEN Len(handled_args.policy.begin) ELSE 1)
    + (IF parallel_type = "parallel_reduce" THEN 1 ELSE 0)

\* valueOffset: 3 if the record has a name, 2 otherwise
ValueOffset == IF handled_args.name = None THEN 2 ELSE 3

Unannotated == { Params[k].name : k \in { j \in 1..Len(Params) : Params[j].annotation = Empty } }

\* the trailing parameters (index >= policyParams), in parameter order
Trailing == SubSeq(Params, SlotCount + 1, Len(Params))

KeywordPassed(q) == q.name \in DOMAIN passed_kwargs

\* raw positional arguments followed by the keyword values of trailing parameters
Folded ==
  LET kw == SelectSeq(Trailing, KeywordPassed)
  IN args_list \o [k \in 1..Len(kw) |-> passed_kwargs[kw[k].name]]

TrailingMismatch == Len(Params) - SlotCount # Len(Folded) - ValueOffset

\* "View{rank}D:{dtype}" for a view, the runtime type name otherwise
TypeDescriptor(x) ==
  IF x.cls = "View" THEN "View" \o ToString(Len(x.shape)) \o "D:" \o x.dtype ELSE x.cls

SlotsUnannotated ==
  \A k \in 1..SlotCount : k <= Len(Params) => Params[k].annotation = Empty

SlotsAnnotated ==
  \A k \in 1..SlotCount : k <= Len(Params) => Params[k].annotation # Empty

\* C5 as stated: in a parallel_reduce dispatch with a supported policy the
\* returned result always gives the last policy-slot parameter "Acc:float".
C5_Original ==
  (/\ gOutcome = "returned"
   /\ parallel_type = "parallel_reduce"
   /\ handled_args.policy.cls \in ConcretePolicies)
    => /\ gResult # None
       /\ Params[SlotCount].name \in DOMAIN gResult.inferred_types
       /\ gResult.inferred_types[Params[SlotCount].name] = "Acc:float"

\* C5 amended: in a parallel_reduce dispatch with a supported policy, the last
\* policy-slot parameter receives "Acc:float" in the returned result whenever
\* it lacks an explicit annotation; an explicitly annotated one receives no
\* inferred type.
C5_AccumulatorWhenUnannotated ==
  (/\ gOutcome = "returned"
   /\ parallel_type = "parallel_reduce"
   /\ handled_args.policy.cls \in ConcretePolicies)
    => LET acc == Params[SlotCount] IN
       /\ acc.annotation = Empty =>
            /\ gResult # None
            /\ acc.name \in DOMAIN gResult.inferred_types
            /\ gResult.inferred_types[acc.name] = "Acc:float"
            /\ acc.name \in gResult.is_arg
       /\ acc.annotation # Empty =>
            (gResult = None \/ acc.name \notin DOMAIN gResult.inferred_types)

\* a 2-dimensional MDRangePolicy reduction with an unannotated accumulator
C5_Witness ==
  /\ gOutcome = "returned"
  /\ parallel_type = "parallel_reduce"
  /\ handled_args.policy.cls = "MDRangePolicy"
  /\ Len(handled_args.policy.begin) = 2
  /\ Len(Params) = 3
  /\ Params[3].annotation = Empty
  /\ Params[1].annotation = Empty

\* C6 as stated: with every parameter annotated the call returns None, for
\* every dispatch kind, policy, raw argument list and keyword mapping.
C6_Original ==
  (gOutcome # "idle" /\ Unannotated = {})
    => (gOutcome = "returned" /\ gResult = None)

\* C6 amended: with every parameter annotated the call never returns an
\* UpdatedTypes: it raises IndexError when the workunit has fewer parameters
\* than policyParams, AssertionError when it has trailing parameters whose
\* number differs from the number of folded arguments beyond valueOffset, and
\* returns None in every other case.
C6_AllAnnotatedNone ==
  (gOutcome # "idle" /\ Unannotated = {})
    => /\ Len(Params) < SlotCount => gOutcome = "IndexError"
       /\ (Len(Params) > SlotCount /\ TrailingMismatch) => gOutcome = "AssertionError"
       /\ (Len(Params) = SlotCount \/ (Len(Params) > SlotCount /\ ~TrailingMismatch))
            => (gOutcome = "returned" /\ gResult = None)

\* a fully annotated workunit with a trailing parameter passed by keyword
C6_Witness ==
  /\ gOutcome = "returned"
  /\ gResult = None
  /\ Unannotated = {}
  /\ Len(Params) > SlotCount
  /\ DOMAIN passed_kwargs # {}

\* C7: in a parallel_for dispatch with unannotated policy slots, the result
\* maps the first parameter to "int" under RangePolicy or TeamThreadRange, to
\* "pk.TeamMember" under TeamPolicy, each of the first d parameters to "int"
\* under a d-dimensional MDRangePolicy; each is in is_arg; a parameter beyond
\* the policy slots gets the descriptor of its value, not a policy type.
C7_PolicySlotTypes ==
  (/\ gOutcome = "returned"
   /\ parallel_type = "parallel_for"
   /\ SlotsUnannotated)
    => LET cls == handled_args.policy.cls
           ty == gResult.inferred_types
       IN
       /\ gResult # None
       /\ cls \in {"RangePolicy", "TeamThreadRange"} =>
            (Params[1].name \in DOMAIN ty /\ ty[Params[1].name] = "int"
               /\ Params[1].name \in gResult.is_arg)
       /\ cls = "TeamPolicy" =>
            (Params[1].name \in DOMAIN ty /\ ty[Params[1].name] = "pk.TeamMember"
               /\ Params[1].name \in gResult.is_arg)
       /\ cls = "MDRangePolicy" =>
            \A k \in 1..Len(handled_args.policy.begin) :
              (Params[k].name \in DOMAIN ty /\ ty[Params[k].name] = "int"
                 /\ Params[k].name \in gResult.is_arg)
       /\ \A k \in (SlotCount + 1)..Len(Params) :
            Params[k].name \in DOMAIN ty =>
              ty[Params[k].name] = TypeDescriptor(Folded[ValueOffset + (k - SlotCount)])

\* a TeamPolicy parallel_for with an unannotated trailing parameter
C7_Witness ==
  /\ gOutcome = "returned"
  /\ parallel_type = "parallel_for"
  /\ handled_args.policy.cls = "TeamPolicy"
  /\ Len(Params) = 2
  /\ Params[1].annotation = Empty
  /\ Params[2].annotation = Empty

\* C8: every unannotated parameter at index i >= policyParams gets the
\* descriptor of the value at position valueOffset + (i - policyParams) of the
\* folded argument list; a 2-dimensional float64 view gives "View2D:float64";
\* when every trailing value is passed by keyword each parameter gets the
\* descriptor of its own keyword value.
C8_TrailingTypes ==
  gOutcome = "returned" =>
    \A k \in (SlotCount + 1)..Len(Params) :
      Params[k].annotation = Empty =>
        LET val == Folded[ValueOffset + (k - SlotCount)]
            nm == Params[k].name
        IN
        /\ gResult # None
        /\ nm \in DOMAIN gResult.inferred_types
        /\ gResult.inferred_types[nm] = TypeDescriptor(val)
        /\ (val.cls = "View" /\ Len(val.shape) = 2 /\ val.dtype = "float64")
             => gResult.inferred_types[nm] = "View2D:float64"
        /\ val.cls # "View" => gResult.inferred_types[nm] = val.cls
        /\ (\A j \in (SlotCount + 1)..Len(Params) : KeywordPassed(Params[j]))
             => gResult.inferred_types[nm] = TypeDescriptor(passed_kwargs[nm])

\* a named call, two unannotated trailing parameters passed by keyword with
\* values of different descriptors
C8_Witness ==
  /\ gOutcome = "returned"
  /\ handled_args.name # None
  /\ Len(Params) = SlotCount + 2
  /\ \A k \in (SlotCount + 1)..Len(Params) :
       Params[k].annotation = Empty /\ KeywordPassed(Params[k])
  /\ passed_kwargs[Params[SlotCount + 1].name].cls = "int"
  /\ passed_kwargs[Params[SlotCount + 2].name].cls = "View"

\* C9 as stated: with parameters beyond the policy slots the call fails with
\* AssertionError exactly when the trailing counts differ.
C9_Original ==
  (gOutcome # "idle" /\ Len(Params) > SlotCount)
    => (gOutcome = "AssertionError" <=> TrailingMismatch)

\* C9 amended: with parameters beyond the policy slots, and the policy-slot
\* pass not ended by the unsupported-policy ValueError (the policy is a
\* supported kind or every policy-slot parameter is annotated), the call fails
\* with AssertionError, returning no result, exactly when the trailing counts
\* differ; when they are equal it returns.
C9_AssertionOnMismatch ==
  (/\ gOutcome # "idle"
   /\ Len(Params) > SlotCount
   /\ (handled_args.policy.cls \in ConcretePolicies \/ SlotsAnnotated))
    => /\ gOutcome = "AssertionError" <=> TrailingMismatch
       /\ gOutcome = "AssertionError" => gResult = NoRecord
       /\ ~TrailingMismatch => gOutcome = "returned"

\* a trailing parameter passed both positionally and by keyword
C9_Witness ==
  /\ gOutcome = "AssertionError"
  /\ handled_args.policy.cls \in ConcretePolicies
  /\ Len(Params) = SlotCount + 1
  /\ Len(args_list) = ValueOffset + 1
  /\ KeywordPassed(Params[Len(Params)])

\* C10: on a normal return with a supported policy the keys of inferred_types
\* are exactly the unannotated parameters, is_arg is the same set, and the
\* result is None exactly when that set is empty.
C10_KeysAreUnannotated ==
  (gOutcome = "returned" /\ handled_args.policy.cls \in ConcretePolicies)
    => /\ gResult = None <=> Unannotated = {}
       /\ gResult # None =>
            /\ DOMAIN gResult.inferred_types = Unannotated
            /\ gResult.is_arg = Unannotated
            /\ DOMAIN gResult.inferred_types # {}

\* a result with an annotated policy slot and an unannotated trailing parameter
C10_Witness ==
  /\ gOutcome = "returned"
  /\ handled_args.policy.cls \in ConcretePolicies
  /\ gResult # None
  /\ Len(Params) > SlotCount
  /\ Params[1].annotation # Empty
  /\ Params[Len(Params)].annotation = Empty

====
